---- MODULE Spec2Model ----
(***************************************************************************)
(* Model of QuoteManager (src/app.py): the retry/backoff wrapper           *)
(* retry_with_backoff, the paginated quote listing get_all_quotes, the     *)
(* total calculator calc_total and the polling loop monitor_inbox.         *)
(*                                                                         *)
(* The specifications share the variables:                                 *)
(*   SpecRetry   retry_with_backoff alone, for every max_retries and       *)
(*               base_delay of the bounded sets and every outcome sequence *)
(*   SpecQuotes  get_all_quotes alone, against an arbitrary server         *)
(*   SpecCalc    calc_total applied to bounded inputs                      *)
(*   Spec        monitor_inbox, which calls the three above                *)
(*   FairSpec    Spec, with the process running on until it is killed      *)
(***************************************************************************)
EXTENDS Integers, Sequences, FiniteSets, TLC

VARIABLES
    \* ---- retry_with_backoff (src/app.py:295-316)
    max_retries,    \* parameter
    base_delay,     \* parameter
    delay,          \* local: the next backoff wait
    attempt,        \* local: the index of the for loop
    r_pc,           \* "idle" | "loop" | "sleep" | "returned" | "raised"
    calls,          \* history: number of invocations of func
    waits,          \* history: the durations passed to time.sleep, in order
    rlog,           \* history: the log lines written, in order
    outcomes,       \* history: what each invocation did: "ok" | "retryable" | "fatal"
    \* ---- get_all_quotes (src/app.py:146-196)
    gq_size,        \* parameter page_size
    gq_page,        \* local page
    gq_all,         \* local all_quotes
    gq_pc,          \* "idle" | "request" | "returned" | "raised"
    gq_resps,       \* history: the responses received, in order
    gq_reqs,        \* history: the page numbers requested, in order
    \* ---- calc_total (src/app.py:131-140)
    c_quote,        \* argument quote_details
    c_lines,        \* argument sales_order_lines
    c_total,        \* the value returned
    c_pc,           \* "idle" | "call" | "done"
    \* ---- monitor_inbox (src/app.py:206-292) and the mailbox it works on
    pc,             \* "idle" | "start" | "folder" | "cycle" | "list" | "item"
                    \* | "scan" | "moving" | "sleep" | "returned"
    subject,        \* the subject of each message
    inbox,          \* the messages in the inbox
    processed,      \* the messages in the folder "Processed Quotes"
    srv,            \* the services called: answering anything, or all in
                    \* order and answering from one set of data
    token,          \* the access token last acquired, named by when it was:
                    \* "startup" | "this_cycle" | "earlier_cycle"
    account,        \* the token the current account object was built with
    folderAcct,     \* the account processed_quotes_folder was resolved from
    listedWith,     \* history: the account the last inbox listing went through
    items,          \* the inbox listing of this cycle
    idx,            \* the position of the for loop in items
    title,          \* local title
    all_quotes,     \* local all_quotes
    qi,             \* the position of the inner for loop in all_quotes
    total_amount,   \* local total_amount
    cur,            \* history: the message being processed (0: none)
    seen,           \* history: the Quote API answers for the quote last looked at
    moves,          \* history: retry_with_backoff calls for the current message
    mlog,           \* history: log lines of the cycle's setup or current message
    cyc,            \* history: what happened in the current cycle
    lstamp,         \* history: which call of get_all_quotes all_quotes is from
    evaluated       \* history: the messages of this cycle line 261 ran for

retryVars == <<max_retries, base_delay, delay, attempt, r_pc, calls, waits,
               rlog, outcomes>>
quoteVars == <<gq_size, gq_page, gq_all, gq_pc, gq_resps, gq_reqs>>
calcVars  == <<c_quote, c_lines, c_total, c_pc>>
mailVars  == <<subject, inbox, processed, srv>>
sessVars  == <<token, account, folderAcct, listedWith>>
loopVars  == <<items, idx, title, all_quotes, qi, total_amount>>
histVars  == <<cur, seen, moves, mlog, cyc, lstamp, evaluated>>
monVars   == <<pc, mailVars, sessVars, loopVars, histVars>>
vars      == <<retryVars, quoteVars, calcVars, monVars>>

\* ------------------------------------------------------------------ bounds
MaxMaxRetries == 5
MaxBaseDelay  == 5
MaxPageSize   == 2
MaxPages      == 3
MaxLines      == 2
MaxAmount     == 1

\* --------------------------------------------------------------- helpers
RECURSIVE Pow2(_)
Pow2(n) == IF n = 0 THEN 1 ELSE 2 * Pow2(n - 1)

\* dict.get(key, default)
Get(d, key, default) == IF key \in DOMAIN d THEN d[key] ELSE default

\* ===================================================================
\* The mailbox operation that monitor_inbox hands to retry_with_backoff
\* ===================================================================

\* item.move(processed_quotes_folder): on success the message leaves the
\* inbox for the folder; on an error nothing changes.
MoveItem(m, kind) ==
    /\ inbox' = IF kind = "ok" THEN inbox \ {m} ELSE inbox
    /\ processed' = IF kind = "ok" THEN processed \cup {m} ELSE processed
    /\ UNCHANGED <<subject, srv>>

\* func(): the lambda of monitor_inbox while a move is under way; outside
\* monitor_inbox an operation with no state of its own.
Func(kind) ==
    IF pc = "moving"
    THEN /\ MoveItem(items[idx], kind)
         /\ UNCHANGED <<pc, sessVars, loopVars, histVars, quoteVars, calcVars>>
    ELSE UNCHANGED <<monVars, quoteVars, calcVars>>

\* ===================================================================
\* retry_with_backoff
\* ===================================================================

\* The exception classes of the first except clause.
RetryableErrors ==
    {"RateLimitError", "ErrorItemNotFound", "ErrorServerBusy",
     "ErrorTimeoutExpired", "ErrorMailboxMoveInProgress",
     "ErrorTooManyObjectsOpened"}

\* Exceptions that are none of the six: they reach `except Exception`.
OtherErrors == {"ErrorFolderNotFound", "ValueError"}

\* What one invocation of func can do.
OutcomeKinds == {"ok"} \cup RetryableErrors \cup OtherErrors

\* Faulty variant of IsRetryable: every exception is retried.
IsRetryableAnyError(kind) == kind # "ok"

\* Does the first except clause catch the error?
IsRetryable(kind) == kind \in RetryableErrors

\* Faulty variant of IsException: no `except Exception` clause.
IsExceptionOnlyRetryable(kind) == kind \in RetryableErrors

\* Does the second except clause (except Exception) catch it?
IsException(kind) == kind \in RetryableErrors \cup OtherErrors

\* Faulty variant of RangeHasNext: range(max_retries - 1).
RangeOneShort(a, m) == a < m - 1

\* for attempt in range(max_retries): is there another pass?
RangeHasNext(a, m) == a < m

\* Faulty variant of NextDelay: delay += base_delay.
NextDelayLinear(d) == d + base_delay

\* delay *= 2
NextDelay(d) == d * 2

\* The six kinds the retry policy names as retryable; the history variable
\* `outcomes` classifies each invocation by this list, whatever the except
\* clauses do with it.
SixRetryableKinds ==
    {"RateLimitError", "ErrorItemNotFound", "ErrorServerBusy",
     "ErrorTimeoutExpired", "ErrorMailboxMoveInProgress",
     "ErrorTooManyObjectsOpened"}

KindClass(kind) ==
    IF kind = "ok" THEN "ok"
    ELSE IF kind \in SixRetryableKinds THEN "retryable" ELSE "fatal"

\* delay = base_delay, and the for loop is entered
RetryEntry(m, b) ==
    /\ max_retries' = m
    /\ base_delay' = b
    /\ delay' = b
    /\ attempt' = 0
    /\ r_pc' = "loop"
    /\ calls' = 0
    /\ waits' = <<>>
    /\ rlog' = <<>>
    /\ outcomes' = <<>>

\* One pass of the try statement: func() and the except clause it lands in.
RetryInvoke(kind) ==
    /\ r_pc = "loop"
    /\ RangeHasNext(attempt, max_retries)
    /\ Func(kind)
    /\ calls' = calls + 1
    /\ outcomes' = Append(outcomes, KindClass(kind))
    /\ IF kind = "ok"
       THEN /\ r_pc' = "returned"
            /\ rlog' = rlog
       ELSE IF IsRetryable(kind)
       THEN /\ r_pc' = "sleep"
            /\ rlog' = Append(rlog, "warning")
       ELSE IF IsException(kind)
       THEN /\ r_pc' = "returned"          \* break, then line 316
            /\ rlog' = rlog \o <<"nonretryable", "failed">>
       ELSE /\ r_pc' = "raised"
            /\ rlog' = rlog
    /\ UNCHANGED <<max_retries, base_delay, delay, attempt, waits>>

\* time.sleep(delay); delay *= 2; next value of the range
RetrySleep ==
    /\ r_pc = "sleep"
    /\ waits' = Append(waits, delay)
    /\ delay' = NextDelay(delay)
    /\ attempt' = attempt + 1
    /\ r_pc' = "loop"
    /\ UNCHANGED <<max_retries, base_delay, calls, rlog, outcomes>>
    /\ UNCHANGED <<monVars, quoteVars, calcVars>>

\* The range is exhausted: the final log line, and the function returns.
RetryExhausted ==
    /\ r_pc = "loop"
    /\ ~RangeHasNext(attempt, max_retries)
    /\ rlog' = Append(rlog, "failed")
    /\ r_pc' = "returned"
    /\ UNCHANGED <<max_retries, base_delay, delay, attempt, calls, waits,
                   outcomes>>
    /\ UNCHANGED <<monVars, quoteVars, calcVars>>

RetryIdle ==
    /\ max_retries = 0 /\ base_delay = 0 /\ delay = 0 /\ attempt = 0
    /\ r_pc = "idle" /\ calls = 0 /\ waits = <<>> /\ rlog = <<>>
    /\ outcomes = <<>>

\* ===================================================================
\* get_all_quotes
\* ===================================================================

StatusCodes == {200, 429, 500}
BodyTypes == {"list", "dict", "str", "null", "number"}

\* A response: its status and its JSON body. The items of a list body are
\* named by the page request that returned them and their position.
Response(status, type, size, req) ==
    [status |-> status, type |-> type, size |-> size,
     items |-> IF type = "list" THEN [i \in 1..size |-> <<req, i>>] ELSE <<>>]

\* The responses the server can give to the request of page p:
\* a body of at most page_size elements (none of page_size once MaxPages
\* pages were served: the server's data is finite).
Responses(p, size, req) ==
    {Response(s, t, n, req) :
        s \in StatusCodes, t \in {"list", "dict", "str"},
        n \in 0..(IF p < MaxPages THEN size ELSE size - 1)}
    \cup {Response(s, t, 0, req) : s \in StatusCodes, t \in {"null", "number"}}

\* Faulty variant of StatusOk: every status below 500 counts as a success.
StatusOkBelow500(status) == status < 500

\* response.status_code == 200
StatusOk(status) == status = 200

\* isinstance(data, list)
IsList(resp) == resp.type = "list"

\* len(data) raises TypeError for None and for a number
HasLen(resp) == resp.type \in {"list", "dict", "str"}

\* Faulty variant of ShortPage: len(data) <= page_size.
ShortPageOrFull(n, size) == n <= size

\* len(data) < page_size
ShortPage(n, size) == n < size

\* One pass of the while loop: the request, the response and what follows.
GetPage(resp) ==
    /\ gq_pc = "request"
    /\ gq_reqs' = Append(gq_reqs, gq_page)
    /\ gq_resps' = Append(gq_resps, resp)
    /\ IF StatusOk(resp.status)
       THEN /\ gq_all' = IF IsList(resp) THEN gq_all \o resp.items ELSE gq_all
            /\ IF ~HasLen(resp)
               THEN gq_pc' = "raised" /\ gq_page' = gq_page
               ELSE IF ShortPage(resp.size, gq_size)
               THEN gq_pc' = "returned" /\ gq_page' = gq_page
               ELSE gq_pc' = "request" /\ gq_page' = gq_page + 1
       ELSE /\ gq_all' = gq_all
            /\ gq_pc' = "returned"
            /\ gq_page' = gq_page
    /\ UNCHANGED gq_size
    /\ UNCHANGED <<retryVars, calcVars, monVars>>

QuotesIdle ==
    /\ gq_size = 0 /\ gq_page = 0 /\ gq_all = <<>> /\ gq_pc = "idle"
    /\ gq_resps = <<>> /\ gq_reqs = <<>>

\* ===================================================================
\* calc_total
\* ===================================================================

Amounts == 0..MaxAmount

\* The sales order lines; quantity is optional.
Lines ==
    [price : Amounts, tax : Amounts]
    \cup [price : Amounts, tax : Amounts, quantity : Amounts]

LineLists == UNION {[1..n -> Lines] : n \in 0..MaxLines}

\* The quote details; deliveryAmount and deliveryTax are optional.
QuoteDetails ==
    {[salesOrderId |-> 7]}
    \cup [salesOrderId : {7}, deliveryAmount : Amounts]
    \cup [salesOrderId : {7}, deliveryTax : Amounts]
    \cup [salesOrderId : {7}, deliveryAmount : Amounts, deliveryTax : Amounts]

\* Faulty variant of Quantity: item.get('quantity', 0).
QuantityDefaultZero(item) == Get(item, "quantity", 0)

\* item.get('quantity', 1)
Quantity(item) == Get(item, "quantity", 1)

RECURSIVE SumSeq(_)
SumSeq(s) == IF s = <<>> THEN 0 ELSE Head(s) + SumSeq(Tail(s))

calc_total(quote_details, sales_order_lines) ==
    LET total_price ==
            SumSeq([i \in DOMAIN sales_order_lines |->
                sales_order_lines[i].price * Quantity(sales_order_lines[i])])
        total_tax ==
            SumSeq([i \in DOMAIN sales_order_lines |->
                sales_order_lines[i].tax * Quantity(sales_order_lines[i])])
        delivery_amount == Get(quote_details, "deliveryAmount", 0)
        delivery_tax == Get(quote_details, "deliveryTax", 0)
    IN total_price + total_tax + delivery_amount + delivery_tax

CalcTotal ==
    /\ c_pc = "call"
    /\ c_total' = calc_total(c_quote, c_lines)
    /\ c_pc' = "done"
    /\ UNCHANGED <<c_quote, c_lines>>
    /\ UNCHANGED <<retryVars, quoteVars, monVars>>

CalcIdle ==
    /\ c_quote = [salesOrderId |-> 7] /\ c_lines = <<>> /\ c_total = 0
    /\ c_pc = "idle"

\* ===================================================================
\* monitor_inbox
\* ===================================================================

NMsgs      == 2
MaxListing == 2

\* retry_with_backoff(func, operation_description, max_retries=5, base_delay=5)
DefaultMaxRetries == 5
DefaultBaseDelay  == 5

\* account.inbox.all().order_by("-datetime_received")[:1000]
InboxLimit == 1000

\* The messages, numbered in the order they were received.
Msgs == 1..NMsgs

\* A subject is the sequence of the pieces it is written from; the marker
\* phrase is one piece, the space before it another.
Marker == "has been signed by "
Separator == <<" ", Marker>>

Subjects ==
    {<<"Acme Deal", " ", Marker, "J. Doe">>,
     <<"Acme Deal", Marker, "J. Doe">>,
     <<"Invoice 42">>}

\* "has been signed by " in item.subject
HasMarker(s) == \E i \in DOMAIN s : s[i] = Marker

\* item.subject.split(" has been signed by ")[0]
SplitHead(s) ==
    LET hits == {i \in 1..(Len(s) - 1) : SubSeq(s, i, i + 1) = Separator}
    IN IF hits = {} THEN s
       ELSE SubSeq(s, 1, (CHOOSE i \in hits : \A j \in hits : i <= j) - 1)

\* The quotes of the Quote API: two of them carry the same title, the
\* third differs from it in case only.
Quotes ==
    {[id |-> 1, title |-> <<"Acme Deal">>],
     [id |-> 2, title |-> <<"Acme Deal">>],
     [id |-> 3, title |-> <<"acme deal">>]}

\* A listing holds each quote at most once, by ascending id.
Listings ==
    {l \in UNION {[1..n -> Quotes] : n \in 0..MaxListing} :
        \A i, j \in DOMAIN l : i < j => l[i].id < l[j].id}

\* What a call of get_all_quotes gives monitor_inbox: a listing (all the
\* pages, or the pages before a failure) or an exception.
ListingResults ==
    {[kind |-> "raise", value |-> <<>>]}
    \cup {[kind |-> "ok", value |-> l] : l \in Listings}

\* What get_quote_details gives: an exception of requests, None (non-200)
\* or the JSON object of the quote.
DetailsResponses ==
    {[kind |-> "raise", value |-> [id |-> 0]],
     [kind |-> "none", value |-> [id |-> 0]],
     [kind |-> "json", value |-> [id |-> 1]],
     [kind |-> "json", value |-> [id |-> 1, salesOrderId |-> 0]],
     [kind |-> "json", value |->
        [id |-> 1, salesOrderId |-> 7, deliveryAmount |-> 1]]}

\* page_size=100 of get_sales_order_lines
LinesPageSize == 100

\* A sales order with one line more than a page of the endpoint holds.
BigOrder == [i \in 1..(LinesPageSize + 1) |-> [price |-> 1, tax |-> 0]]

\* The lines of the sales orders the Quote API holds: none, two lines, a
\* line without a price, and more lines than one page.
Orders ==
    {<<>>,
     <<[price |-> 1, tax |-> 0, quantity |-> 2], [price |-> 2, tax |-> 1]>>,
     <<[tax |-> 1]>>,
     BigOrder}

\* The endpoint answers ?page=p&pageSize=n with the p-th run of n lines.
PageOf(order, p, n) ==
    SubSeq(order, (p - 1) * n + 1, IF Len(order) < p * n THEN Len(order) ELSE p * n)

\* get_sales_order_lines(sales_order_id, api_key): one request, page=1 and
\* page_size=100 by default; the JSON of the response is returned as it is.
get_sales_order_lines(order) == PageOf(order, 1, LinesPageSize)

\* What get_sales_order_lines gives: an exception, None (non-200) or the
\* JSON list of the lines; order is the sales order it was asked about.
LinesResponses ==
    {[kind |-> "raise", value |-> <<>>, order |-> <<>>],
     [kind |-> "none", value |-> <<>>, order |-> <<>>]}
    \cup {[kind |-> "json", value |-> get_sales_order_lines(o), order |-> o] :
            o \in Orders}

NotCalled == [kind |-> "not_called", value |-> <<>>, order |-> <<>>]

\* Services that may fail or answer anything at any call.
Unreliable == [on |-> FALSE, listing |-> <<>>, answers |-> <<>>]

\* What the Quote API holds about one quote when it is in order: the JSON
\* of the quote, without or with a sales order, and the order's lines (an
\* order that fits one page).
ServerQuotes ==
    {[details |-> d, lines |-> NotCalled] :
        d \in {x \in DetailsResponses :
                x.kind = "json" /\ "salesOrderId" \notin DOMAIN x.value}}
    \cup {[details |-> d, lines |-> l] :
        d \in {x \in DetailsResponses :
                /\ x.kind = "json"
                /\ "salesOrderId" \in DOMAIN x.value
                /\ x.value.salesOrderId # 0},
        l \in {x \in LinesResponses :
                x.kind = "json" /\ Len(x.order) <= LinesPageSize}}

\* Services in order: every call succeeds and the Quote API answers from
\* one listing and one set of quotes.
Servers ==
    UNION {{[on |-> TRUE, listing |-> l, answers |-> a] :
                a \in [DOMAIN l -> ServerQuotes]} : l \in Listings}

\* The outcomes of acquire_token, of the folder lookup and of the inbox
\* listing: success, or an exception.
CallOutcomes == IF srv.on THEN {TRUE} ELSE BOOLEAN

\* The results get_all_quotes can give monitor_inbox.
ListingAnswers ==
    IF srv.on THEN {[kind |-> "ok", value |-> srv.listing]} ELSE ListingResults

\* The results get_quote_details can give for the i-th quote listed.
DetailsAnswers(i) ==
    IF srv.on THEN {srv.answers[i].details} ELSE DetailsResponses

\* The results get_sales_order_lines can give for the i-th quote listed.
LinesAnswers(i) ==
    IF srv.on THEN {srv.answers[i].lines} ELSE LinesResponses

\* What item.move can do.
MoveAnswers == IF srv.on THEN {"ok"} ELSE OutcomeKinds

\* No quote of the listing has been looked at yet.
NoAnswers == [qi |-> 0, details |-> NotCalled, lines |-> NotCalled]

\* Faulty variant of TitleMatches: the titles are compared in lower case.
LowerCase(piece) == IF piece = "Acme Deal" THEN "acme deal" ELSE piece
TitleMatchesIgnoringCase(quote, t) ==
    [i \in DOMAIN quote.title |-> LowerCase(quote.title[i])]
        = [i \in DOMAIN t |-> LowerCase(t[i])]

\* if quote['title'] == title
TitleMatches(quote, t) == quote.title = t

\* if quote_details:
DetailsTruthy(d) == d.kind = "json"

\* quote_details.get('salesOrderId'); 0 stands for None
SalesOrderIdOf(d) == Get(d.value, "salesOrderId", 0)

\* if sales_order_id:
IdTruthy(id) == id # 0

\* Faulty variant of LinesTruthy: the test is inverted.
LinesTruthyInverted(l) == l.kind = "json" /\ Len(l.value) = 0

\* if sales_order_lines:
LinesTruthy(l) == l.kind = "json" /\ Len(l.value) > 0

\* item['price'] and item['tax'] raise KeyError on a line without the key
CalcRaises(lines) ==
    \E i \in DOMAIN lines :
        "price" \notin DOMAIN lines[i] \/ "tax" \notin DOMAIN lines[i]

\* Is get_sales_order_lines called after get_quote_details gave d?
CallsLines(d) ==
    d.kind # "raise" /\ DetailsTruthy(d) /\ IdTruthy(SalesOrderIdOf(d))

\* Lines 267-277 for a quote whose title matched: "raise" (an exception
\* leaves the try block), "skip" (an if fails) or "move".
QuoteOutcome(d, l) ==
    IF d.kind = "raise" THEN "raise"
    ELSE IF ~DetailsTruthy(d) THEN "skip"
    ELSE IF ~IdTruthy(SalesOrderIdOf(d)) THEN "skip"
    ELSE IF l.kind = "raise" THEN "raise"
    ELSE IF ~LinesTruthy(l) THEN "skip"
    ELSE IF CalcRaises(l.value) THEN "raise"
    ELSE "move"

\* The inbox, newest first.
RECURSIVE NewestFirst(_)
NewestFirst(S) ==
    IF S = {} THEN <<>>
    ELSE LET m == CHOOSE x \in S : \A y \in S : y <= x
         IN <<m>> \o NewestFirst(S \ {m})

\* [:1000]
Take(s, n) == SubSeq(s, 1, IF Len(s) < n THEN Len(s) ELSE n)

\* Faulty variant of SessionFor: the account is not rebuilt.
SessionKept(tok, old) == old

\* The account object built from the token just acquired (lines 232-251).
SessionFor(tok, old) == tok

\* Faulty variant of OnCycleError: the exception ends monitor_inbox.
OnCycleErrorExit == "returned"

\* Where an exception of the cycle's try block lands: the handler of
\* line 287 logs it and the loop goes on to the sleep of line 292.
OnCycleError == "sleep"

\* all_quotes holds no listing yet, or the one of lines 209-215.
NoListing == [for |-> 0, when |-> "none"]
BeforeLoop == [for |-> 0, when |-> "startup"]

\* The listing line 261 fetched for message m, and the one all_quotes holds.
Fetched(l, m) == [quotes |-> l, stamp |-> [for |-> m, when |-> "this_cycle"]]
Held == [quotes |-> all_quotes, stamp |-> lstamp]

\* Faulty variant of ListingFor: a listing already held is used again.
ListingKept(fetched, held) == IF held.quotes # <<>> THEN held ELSE fetched

\* all_quotes = get_all_quotes(api_key): the name is bound to the listing
\* just fetched, whatever it held.
ListingFor(fetched, held) == fetched

NoCycle == [token |-> "none", listed |-> FALSE, api |-> FALSE, moved |-> FALSE]

\* The outer for loop goes to its next item, or ends and the cycle sleeps.
NextItem ==
    /\ pc' = IF idx < Len(items) THEN "item" ELSE "sleep"
    /\ idx' = IF idx < Len(items) THEN idx + 1 ELSE idx

\* The inner for loop goes to its next quote, or ends.
NextQuote ==
    IF qi < Len(all_quotes)
    THEN pc' = "scan" /\ qi' = qi + 1 /\ idx' = idx
    ELSE qi' = qi /\ NextItem

RetryReset ==
    /\ max_retries' = 0 /\ base_delay' = 0 /\ delay' = 0 /\ attempt' = 0
    /\ r_pc' = "idle" /\ calls' = 0 /\ waits' = <<>> /\ rlog' = <<>>
    /\ outcomes' = <<>>

\* Lines 209-215: the listing fetched before the loop.
Start ==
    /\ pc = "start"
    /\ \E r \in ListingAnswers :
        IF r.kind = "raise"
        THEN all_quotes' = <<>> /\ mlog' = <<"error_quotes">>
        ELSE all_quotes' = r.value /\ mlog' = <<"retrieved">>
    /\ lstamp' = BeforeLoop
    /\ pc' = "folder"
    /\ UNCHANGED <<items, idx, title, qi, total_amount, cur, seen, moves, cyc>>
    /\ UNCHANGED evaluated
    /\ UNCHANGED <<mailVars, sessVars, retryVars, quoteVars, calcVars>>

\* Lines 217-222: the folder is resolved from the account passed in.
ResolveFolder ==
    /\ pc = "folder"
    /\ \E ok \in CallOutcomes :
        IF ok
        THEN /\ folderAcct' = account
             /\ pc' = "cycle"
             /\ mlog' = mlog
        ELSE /\ folderAcct' = folderAcct
             /\ pc' = "returned"
             /\ mlog' = Append(mlog, "error_folder")
    /\ UNCHANGED <<token, account, listedWith>>
    /\ UNCHANGED <<cur, seen, moves, cyc, lstamp, evaluated>>
    /\ UNCHANGED <<mailVars, loopVars, retryVars, quoteVars, calcVars>>

\* Lines 225-251: a cycle begins, the token is acquired and the account
\* rebuilt; a failure lands in the handler of line 287.
AcquireToken ==
    /\ pc = "cycle"
    /\ \E ok \in CallOutcomes :
        IF ok
        THEN /\ token' = "this_cycle"
             /\ account' = SessionFor("this_cycle", account)
             /\ pc' = "list"
             /\ mlog' = <<"checking">>
             /\ cyc' = [NoCycle EXCEPT !.token = "ok"]
        ELSE /\ token' = token
             /\ account' = account
             /\ pc' = OnCycleError
             /\ mlog' = <<"checking", "error_monitoring">>
             /\ cyc' = [NoCycle EXCEPT !.token = "failed"]
    /\ UNCHANGED <<folderAcct, listedWith, cur, seen, moves, lstamp, evaluated>>
    /\ UNCHANGED <<mailVars, loopVars, retryVars, quoteVars, calcVars>>

\* Line 254: the inbox is listed through the current account.
ListInbox ==
    /\ pc = "list"
    /\ \E ok \in CallOutcomes :
        IF ok
        THEN /\ items' = Take(NewestFirst(inbox), InboxLimit)
             /\ listedWith' = account
             /\ cyc' = [cyc EXCEPT !.listed = TRUE]
             /\ idx' = 1
             /\ pc' = IF inbox = {} THEN "sleep" ELSE "item"
             /\ mlog' = mlog
        ELSE /\ items' = items
             /\ listedWith' = listedWith
             /\ cyc' = cyc
             /\ idx' = idx
             /\ pc' = OnCycleError
             /\ mlog' = Append(mlog, "error_monitoring")
    /\ UNCHANGED <<token, account, folderAcct>>
    /\ UNCHANGED <<title, all_quotes, qi, total_amount, cur, seen, moves>>
    /\ UNCHANGED <<lstamp, evaluated>>
    /\ UNCHANGED <<mailVars, retryVars, quoteVars, calcVars>>

\* Lines 255-261: the next message; with the marker in its subject the
\* title is cut out and the quotes are listed again.
BeginItem ==
    /\ pc = "item"
    /\ cur' = items[idx]
    /\ seen' = NoAnswers
    /\ moves' = 0
    /\ RetryReset
    /\ LET item == items[idx] IN
        IF HasMarker(subject[item])
        THEN /\ title' = SplitHead(subject[item])
             /\ cyc' = [cyc EXCEPT !.api = TRUE]
             /\ evaluated' = evaluated \cup {item}
             /\ \E r \in ListingAnswers :
                 IF r.kind = "raise"
                 THEN /\ mlog' = <<"email_found", "error_processing">>
                      /\ all_quotes' = all_quotes
                      /\ lstamp' = lstamp
                      /\ qi' = qi
                      /\ NextItem
                 ELSE LET used == ListingFor(Fetched(r.value, item), Held) IN
                      /\ mlog' = <<"email_found">>
                      /\ all_quotes' = used.quotes
                      /\ lstamp' = used.stamp
                      /\ IF used.quotes = <<>>
                         THEN qi' = qi /\ NextItem
                         ELSE qi' = 1 /\ pc' = "scan" /\ idx' = idx
        ELSE /\ title' = title
             /\ cyc' = cyc
             /\ evaluated' = evaluated
             /\ mlog' = <<>>
             /\ all_quotes' = all_quotes
             /\ lstamp' = lstamp
             /\ qi' = qi
             /\ NextItem
    /\ UNCHANGED <<items, total_amount>>
    /\ UNCHANGED <<mailVars, sessVars, quoteVars, calcVars>>

\* Lines 263-282: one quote of the listing, up to the call of
\* retry_with_backoff.
ProcessQuote ==
    /\ pc = "scan"
    /\ IF ~TitleMatches(all_quotes[qi], title)
       THEN /\ seen' = [NoAnswers EXCEPT !.qi = qi]
            /\ NextQuote
            /\ RetryReset
            /\ UNCHANGED <<total_amount, moves, mlog, cyc>>
       ELSE \E d \in DetailsAnswers(qi) :
            \E l \in (IF CallsLines(d) THEN LinesAnswers(qi) ELSE {NotCalled}) :
              /\ seen' = [qi |-> qi, details |-> d, lines |-> l]
              /\ IF QuoteOutcome(d, l) = "raise"
                 THEN /\ mlog' = mlog \o <<"title_found", "error_processing">>
                      /\ qi' = qi
                      /\ NextItem
                      /\ RetryReset
                      /\ UNCHANGED <<total_amount, moves, cyc>>
                 ELSE IF QuoteOutcome(d, l) = "skip"
                 THEN /\ mlog' = Append(mlog, "title_found")
                      /\ NextQuote
                      /\ RetryReset
                      /\ UNCHANGED <<total_amount, moves, cyc>>
                 ELSE /\ total_amount' = calc_total(d.value, l.value)
                      /\ mlog' = mlog \o <<"title_found", "total", "moving">>
                      /\ moves' = moves + 1
                      /\ cyc' = [cyc EXCEPT !.moved = TRUE]
                      /\ RetryEntry(DefaultMaxRetries, DefaultBaseDelay)
                      /\ pc' = "moving"
                      /\ qi' = qi
                      /\ idx' = idx
    /\ UNCHANGED <<items, title, all_quotes, cur, lstamp, evaluated>>
    /\ UNCHANGED <<mailVars, sessVars, quoteVars, calcVars>>

\* Line 283, or the handler of line 284 had retry_with_backoff raised.
AfterMove ==
    /\ pc = "moving"
    /\ r_pc \in {"returned", "raised"}
    /\ IF r_pc = "returned"
       THEN mlog' = Append(mlog, "moved") /\ NextQuote
       ELSE mlog' = Append(mlog, "error_processing") /\ qi' = qi /\ NextItem
    /\ UNCHANGED <<items, title, all_quotes, total_amount, cur, seen, moves, cyc>>
    /\ UNCHANGED <<lstamp, evaluated>>
    /\ UNCHANGED <<mailVars, sessVars, retryVars, quoteVars, calcVars>>

\* A token or account of the cycle that ends is one of an earlier cycle
\* from now on.
Aged(x) == IF x = "this_cycle" THEN "earlier_cycle" ELSE x

\* Lines 290-292: the sleep, after which the while loop starts over.
Sleep ==
    /\ pc = "sleep"
    /\ mlog' = <<"sleeping">>
    /\ pc' = "cycle"
    /\ token' = Aged(token)
    /\ account' = Aged(account)
    /\ folderAcct' = Aged(folderAcct)
    /\ listedWith' = Aged(listedWith)
    /\ cur' = 0
    /\ seen' = NoAnswers
    /\ moves' = 0
    /\ cyc' = NoCycle
    /\ lstamp' = [for |-> 0, when |-> Aged(lstamp.when)]
    /\ evaluated' = {}
    /\ RetryReset
    /\ UNCHANGED <<mailVars, loopVars, quoteVars, calcVars>>

MonIdle ==
    /\ pc = "idle" /\ subject = [m \in Msgs |-> <<"Invoice 42">>]
    /\ inbox = {} /\ processed = {} /\ srv = Unreliable
    /\ token = "startup" /\ account = "startup" /\ folderAcct = "none"
    /\ listedWith = "none"
    /\ items = <<>> /\ idx = 0 /\ title = <<>> /\ all_quotes = <<>> /\ qi = 0
    /\ total_amount = 0
    /\ cur = 0 /\ seen = NoAnswers /\ moves = 0 /\ mlog = <<>> /\ cyc = NoCycle
    /\ lstamp = NoListing /\ evaluated = {}

\* ===================================================================
\* Specifications
\* ===================================================================

\* retry_with_backoff called with any max_retries >= 0 and base_delay > 0
InitRetry ==
    /\ max_retries \in 0..MaxMaxRetries
    /\ base_delay \in 1..MaxBaseDelay
    /\ delay = base_delay
    /\ attempt = 0
    /\ r_pc = "loop"
    /\ calls = 0
    /\ waits = <<>>
    /\ rlog = <<>>
    /\ outcomes = <<>>
    /\ QuotesIdle
    /\ CalcIdle
    /\ MonIdle

NextRetry ==
    \/ \E kind \in OutcomeKinds : RetryInvoke(kind)
    \/ RetrySleep
    \/ RetryExhausted

SpecRetry == InitRetry /\ [][NextRetry]_vars

\* get_all_quotes called with page = 1 and any page_size
InitQuotes ==
    /\ gq_size \in 1..MaxPageSize
    /\ gq_page = 1
    /\ gq_all = <<>>
    /\ gq_pc = "request"
    /\ gq_resps = <<>>
    /\ gq_reqs = <<>>
    /\ RetryIdle
    /\ CalcIdle
    /\ MonIdle

NextQuotes ==
    \E resp \in Responses(gq_page, gq_size, Len(gq_reqs) + 1) : GetPage(resp)

SpecQuotes == InitQuotes /\ [][NextQuotes]_vars

\* calc_total applied to a quote and a list of lines
InitCalc ==
    /\ c_quote \in QuoteDetails
    /\ c_lines \in LineLists
    /\ c_total = 0
    /\ c_pc = "call"
    /\ RetryIdle
    /\ QuotesIdle
    /\ MonIdle

NextCalc == CalcTotal

SpecCalc == InitCalc /\ [][NextCalc]_vars

\* monitor_inbox called with the account that initialize() built
InitMonitor ==
    /\ pc = "start"
    /\ subject \in [Msgs -> Subjects]
    /\ inbox = Msgs
    /\ processed = {}
    /\ token = "startup" /\ account = "startup" /\ folderAcct = "none"
    /\ listedWith = "none"
    /\ items = <<>> /\ idx = 0 /\ title = <<>> /\ all_quotes = <<>> /\ qi = 0
    /\ total_amount = 0
    /\ cur = 0 /\ seen = NoAnswers /\ moves = 0 /\ mlog = <<>> /\ cyc = NoCycle
    /\ lstamp = NoListing /\ evaluated = {}
    /\ RetryIdle
    /\ QuotesIdle
    /\ CalcIdle

Init == InitMonitor /\ srv = Unreliable

Next ==
    \/ Start
    \/ ResolveFolder
    \/ AcquireToken
    \/ ListInbox
    \/ BeginItem
    \/ ProcessQuote
    \/ \E kind \in MoveAnswers : RetryInvoke(kind)
    \/ RetrySleep
    \/ RetryExhausted
    \/ AfterMove
    \/ Sleep

Spec == Init /\ [][Next]_vars

\* The process runs on until it is killed: a step that can be taken is taken.
FairSpec == Spec /\ WF_vars(Next)

\* monitor_inbox run against services that are in order: no call fails, so
\* retry_with_backoff neither waits nor gives up.
InitHealthy == InitMonitor /\ srv \in Servers

NextHealthy ==
    \/ Start
    \/ ResolveFolder
    \/ AcquireToken
    \/ ListInbox
    \/ BeginItem
    \/ ProcessQuote
    \/ \E kind \in MoveAnswers : RetryInvoke(kind)
    \/ AfterMove
    \/ Sleep

FairHealthy == InitHealthy /\ [][NextHealthy]_vars /\ WF_vars(NextHealthy)

\* ===================================================================
\* Properties
\* ===================================================================

Last(s) == s[Len(s)]

\* C1: for every max_retries >= 0, base_delay > 0 and every sequence of
\* outcomes, retry_with_backoff invokes the operation at most max_retries
\* times and its k-th backoff wait lasts base_delay * 2^(k-1) seconds.
C1_BoundedCallsDoublingWaits ==
    /\ calls <= max_retries
    /\ \A k \in DOMAIN waits : waits[k] = base_delay * Pow2(k - 1)

C1_Witness ==
    /\ max_retries = 5 /\ base_delay = 5
    /\ calls = 5
    /\ waits = <<5, 10, 20, 40, 80>>

\* C2: when an invocation raises an error that is none of the six retryable
\* kinds, retry_with_backoff logs the failure and stops: no backoff wait and
\* no further invocation follows, on whichever attempt it was raised.
C2_FatalErrorStops ==
    \A i \in DOMAIN outcomes :
        outcomes[i] = "fatal" =>
            /\ Len(outcomes) = i
            /\ calls = i
            /\ Len(waits) = i - 1
            /\ r_pc = "returned"
            /\ Len(rlog) = i + 1
            /\ rlog[i] = "nonretryable"

C2_Witness ==
    /\ outcomes = <<"retryable", "retryable", "fatal">>
    /\ r_pc = "returned"
    /\ Len(waits) = 2

\* C3: if the operation raises a retryable error on its first n invocations
\* (n < max_retries) and succeeds on invocation n+1, retry_with_backoff
\* invokes it exactly n+1 times, waits base_delay, ..., base_delay*2^(n-1),
\* returns right after the success and does not log the final failure; after
\* fewer than max_retries retryable errors it has not given up.
C3_SuccessAfterRetries ==
    LET n == Len(outcomes) - 1
        retryableUpTo(m) == \A i \in 1..m : outcomes[i] = "retryable"
    IN /\ (outcomes # <<>> /\ Last(outcomes) = "ok" /\ retryableUpTo(n)) =>
            /\ n < max_retries
            /\ calls = n + 1
            /\ waits = [k \in 1..n |-> base_delay * Pow2(k - 1)]
            /\ r_pc = "returned"
            /\ \A j \in DOMAIN rlog : rlog[j] # "failed"
       /\ (retryableUpTo(Len(outcomes)) /\ Len(outcomes) < max_retries) =>
            r_pc \in {"loop", "sleep"}

C3_Witness ==
    /\ max_retries = 5 /\ base_delay = 5
    /\ outcomes = <<"retryable", "retryable", "retryable", "retryable", "ok">>
    /\ waits = <<5, 10, 20, 40>>
    /\ r_pc = "returned"

\* C4: retry_with_backoff never propagates an error of the operation: for
\* every outcome sequence, max_retries retryable errors in a row included,
\* it returns normally, and monitor_inbox goes on to the statement after
\* the call (the log line of line 283) and not to its exception handler.
C4_RetryNeverRaises ==
    /\ r_pc # "raised"
    /\ (r_pc = "returned" /\ pc # "moving") =>
            /\ Last(mlog) = "moved"
            /\ \A j \in DOMAIN mlog : mlog[j] # "error_processing"

C4_Witness ==
    /\ outcomes = <<"retryable", "retryable", "retryable", "retryable", "retryable">>
    /\ r_pc = "returned"
    /\ Last(rlog) = "failed"
    /\ pc # "moving"
    /\ Last(mlog) = "moved"

\* The items of the list bodies of a sequence of responses, in order.
RECURSIVE ItemsOf(_)
ItemsOf(resps) ==
    IF resps = <<>> THEN <<>>
    ELSE ItemsOf(SubSeq(resps, 1, Len(resps) - 1)) \o Last(resps).items

AllPagesAreLists ==
    \A i \in DOMAIN gq_resps :
        gq_resps[i].status = 200 /\ gq_resps[i].type = "list"

\* C5: when every response is a 200 with a list body, get_all_quotes
\* requests pages 1, 2, 3, ... each once, holds the concatenation of the
\* pages in page order, and stops exactly after the first page shorter than
\* page_size: f full pages and a short one cost f+1 requests.
C5_PagesConcatenatedUntilShort ==
    AllPagesAreLists =>
        /\ gq_reqs = [i \in 1..Len(gq_resps) |-> i]
        /\ gq_all = ItemsOf(gq_resps)
        /\ \A i \in 1..(Len(gq_resps) - 1) : gq_resps[i].size = gq_size
        /\ gq_pc # "raised"
        /\ gq_pc = "returned" <=>
              (gq_resps # <<>> /\ Last(gq_resps).size < gq_size)

C5_Witness ==
    /\ AllPagesAreLists
    /\ gq_pc = "returned"
    /\ gq_size = 2
    /\ gq_reqs = <<1, 2, 3>>
    /\ Len(gq_all) = 5

\* C6: when a page request gets a non-200 response, get_all_quotes issues
\* no further request and returns exactly the items of the pages received
\* before the failure, without raising.
C6_ErrorResponseEndsPaging ==
    \A i \in DOMAIN gq_resps :
        gq_resps[i].status # 200 =>
            /\ Len(gq_resps) = i
            /\ Len(gq_reqs) = i
            /\ gq_pc = "returned"
            /\ gq_all = ItemsOf(SubSeq(gq_resps, 1, i - 1))

C6_Witness ==
    /\ Len(gq_resps) = 2
    /\ gq_resps[1].type = "list"
    /\ gq_resps[2].status = 500
    /\ gq_resps[2].type = "list" /\ gq_resps[2].size > 0
    /\ gq_pc = "returned"
    /\ Len(gq_all) = gq_size

\* The answers of the Quote API for a quote qualify the message for the
\* move: the quote's title equals the extracted title, get_quote_details
\* returned a value with a non-empty salesOrderId, get_sales_order_lines
\* returned a non-empty list of lines each with a price and a tax.
Qualifies(a) ==
    /\ a.qi \in DOMAIN all_quotes
    /\ all_quotes[a.qi].title = title
    /\ a.details.kind = "json"
    /\ "salesOrderId" \in DOMAIN a.details.value
    /\ a.details.value.salesOrderId # 0
    /\ a.lines.kind = "json"
    /\ a.lines.value # <<>>
    /\ \A i \in DOMAIN a.lines.value :
            {"price", "tax"} \subseteq DOMAIN a.lines.value[i]

\* C7: the move of a message is invoked exactly when its subject contains
\* the marker, the listing fetched for it holds a quote whose title equals
\* the extracted title, get_quote_details returned a value with a non-empty
\* salesOrderId and get_sales_order_lines returned a non-empty list whose
\* total could be computed; a message failing any of these is not moved
\* and stays in the inbox.
C7_MoveExactlyWhenQualified ==
    pc \in {"item", "scan", "moving", "sleep"} =>
        /\ (r_pc # "idle") <=> Qualifies(seen)
        /\ (r_pc # "idle") => moves > 0
        /\ moves > 0 => (cur # 0 /\ HasMarker(subject[cur]))
        /\ (moves = 0 /\ cur # 0) => (cur \in inbox /\ cur \notin processed)

C7_Witness ==
    /\ pc = "moving"
    /\ calls = 1
    /\ subject[cur] = <<"Acme Deal", " ", Marker, "J. Doe">>
    /\ title = <<"Acme Deal">>
    /\ all_quotes[qi].title = <<"Acme Deal">>
    /\ cur \in processed

\* C8 as stated: monitor_inbox never returns, whatever fails (a failure to
\* resolve the 'Processed Quotes' folder included).
C8_NeverReturns == pc # "returned"

\* C8 amended: once the 'Processed Quotes' folder has been resolved,
\* monitor_inbox never returns and, whatever fails afterwards (token
\* acquisition, inbox listing, Quote API, move), always reaches the sleep
\* of another cycle; it returns only when resolving the folder failed at
\* startup, before the first cycle, with the failure logged.
C8_NoTerminalStateOnceFolderResolved ==
    /\ [](folderAcct # "none" => pc # "returned")
    /\ [](pc = "returned" =>
            folderAcct = "none" /\ token = "startup" /\ listedWith = "none"
            /\ Last(mlog) = "error_folder")
    /\ [](cyc.token = "failed" => Last(mlog) = "error_monitoring")
    /\ [](folderAcct # "none" => <>(pc = "sleep"))
    /\ [](pc = "sleep" => <>(pc = "cycle"))

C8_Witness ==
    /\ pc = "sleep"
    /\ cyc.token = "failed"
    /\ token = "earlier_cycle"
    /\ processed # {}

\* C9: in every cycle the token is acquired anew and a new account built
\* from it before the inbox is listed; in a cycle whose token acquisition
\* fails there is no inbox listing, Quote API call or move, the failure is
\* logged and the cycle ends with the sleep.
C9_FreshSessionEveryCycle ==
    /\ cyc.listed =>
            /\ cyc.token = "ok"
            /\ token = "this_cycle"
            /\ account = "this_cycle"
            /\ listedWith = "this_cycle"
    /\ (cyc.api \/ cyc.moved) => cyc.listed
    /\ cyc.token = "failed" =>
            /\ ~cyc.listed /\ ~cyc.api /\ ~cyc.moved
            /\ pc = "sleep"
            /\ mlog = <<"checking", "error_monitoring">>
    /\ pc \in {"list", "item", "scan", "moving"} => cyc.token = "ok"

C9_Witness ==
    /\ cyc.listed /\ cyc.moved
    /\ listedWith = "this_cycle"
    /\ processed # {}
    /\ pc = "sleep"

\* The sum of f[1..n].
RECURSIVE SumTo(_, _)
SumTo(f, n) == IF n = 0 THEN 0 ELSE SumTo(f, n - 1) + f[n]

\* C10: calc_total returns sum(price*q) + sum(tax*q) + deliveryAmount +
\* deliveryTax, where q is the line's quantity, or 1 when it has none, and
\* an absent deliveryAmount or deliveryTax counts as 0.
C10_TotalIsTheSum ==
    c_pc = "done" =>
        LET q(line) == IF "quantity" \in DOMAIN line THEN line.quantity ELSE 1
            n == Len(c_lines)
            deliveryAmount ==
                IF "deliveryAmount" \in DOMAIN c_quote
                THEN c_quote.deliveryAmount ELSE 0
            deliveryTax ==
                IF "deliveryTax" \in DOMAIN c_quote
                THEN c_quote.deliveryTax ELSE 0
        IN c_total =
              SumTo([i \in 1..n |-> c_lines[i].price * q(c_lines[i])], n)
              + SumTo([i \in 1..n |-> c_lines[i].tax * q(c_lines[i])], n)
              + deliveryAmount + deliveryTax

C10_Witness ==
    /\ c_pc = "done"
    /\ Len(c_lines) = 2
    /\ "quantity" \in DOMAIN c_lines[1]
    /\ "quantity" \notin DOMAIN c_lines[2]
    /\ c_lines[2].price = 1 /\ c_lines[2].tax = 1
    /\ "deliveryAmount" \in DOMAIN c_quote
    /\ "deliveryTax" \notin DOMAIN c_quote
    /\ c_total = 3

\* C11: for each message the title scan stops at the first quote whose
\* title equals the extracted title: the move is invoked at most once for
\* the message in a cycle, also when several quotes carry the same title.
C11_AtMostOneMovePerMessage == moves <= 1

\* C12: every backoff wait is followed by another invocation: a run that
\* made a attempts has performed at most a-1 waits when it returns, and no
\* wait follows the last attempt.
C12_WaitsOnlyBetweenAttempts ==
    (r_pc = "returned" /\ calls > 0) => Len(waits) <= calls - 1

\* C13: every mailbox object used in a cycle, the destination folder handed
\* to the move included, belongs to the session built from the token
\* acquired in that cycle.
C13_NoObjectOfAnEarlierSession ==
    /\ pc \in {"item", "scan", "moving"} =>
            (account = "this_cycle" /\ listedWith = "this_cycle")
    /\ pc = "moving" => folderAcct = account

\* C14: a 200 response whose body is not a list is treated as an empty
\* page: it adds no items, ends the paging, and get_all_quotes returns what
\* it gathered so far without raising and without a further request.
C14_NonListBodyEndsPaging ==
    \A i \in DOMAIN gq_resps :
        (gq_resps[i].status = 200 /\ gq_resps[i].type # "list") =>
            /\ Len(gq_resps) = i
            /\ Len(gq_reqs) = i
            /\ gq_pc = "returned"
            /\ gq_all = ItemsOf(SubSeq(gq_resps, 1, i - 1))

\* C15: for a message whose subject contains the marker, the candidate
\* title is the part of the subject before the first occurrence of the
\* marker (and the space before it): it never contains the marker and is
\* never the whole subject.
C15_TitleIsThePrefixBeforeTheMarker ==
    (cur # 0 /\ HasMarker(subject[cur])) =>
        LET s == subject[cur]
            k == CHOOSE i \in DOMAIN s :
                    s[i] = Marker /\ \A j \in 1..(i - 1) : s[j] # Marker
        IN /\ ~HasMarker(title)
           /\ title # s
           /\ k >= 2
           /\ SubSeq(s, 1, k - 1) = title \o <<" ">>

\* C16: an exception raised while a message is processed is caught and
\* logged, leaves the message unmoved and does not stop the cycle: the for
\* loop goes on to the next message of the listing.
C16_MessageErrorLeavesItUnmoved ==
    (cur # 0 /\ \E j \in DOMAIN mlog : mlog[j] = "error_processing") =>
        /\ Last(mlog) = "error_processing"
        /\ cur \in inbox
        /\ cur \notin processed
        /\ IF cur = Last(items)
           THEN pc = "sleep"
           ELSE pc = "item" /\ idx \in DOMAIN items /\ items[idx - 1] = cur

\* C18: 'Email moved to: Processed Quotes' is logged for a message only if
\* its move succeeded; when retry_with_backoff gave up the line is not
\* logged.
C18_MovedLoggedOnlyOnSuccess ==
    (mlog # <<>> /\ Last(mlog) = "moved") =>
        (outcomes # <<>> /\ Last(outcomes) = "ok" /\ cur \in processed)

\* C17: matching keeps no memory: while the quotes are scanned for a
\* message, the listing scanned was fetched for that very message in the
\* current cycle (never the one fetched before the loop, for another
\* message or in an earlier cycle); and a cycle that listed the inbox has,
\* by its sleep, fetched a listing for every marker-bearing message listed,
\* so that a message left in the inbox is matched anew in every such cycle.
C17_ListingFetchedForTheMessage ==
    /\ pc \in {"scan", "moving"} =>
        /\ HasMarker(subject[cur])
        /\ items[idx] = cur
        /\ lstamp.for = cur
        /\ lstamp.when = "this_cycle"
        /\ cur \in evaluated
    /\ (pc = "sleep" /\ cyc.listed) =>
        \A i \in DOMAIN items :
            HasMarker(subject[items[i]]) => items[i] \in evaluated

\* A message whose move failed in an earlier cycle is being matched again.
C17_Witness ==
    /\ pc = "scan"
    /\ ~cyc.moved
    /\ total_amount # 0
    /\ inbox = Msgs
    /\ \A m \in Msgs : HasMarker(subject[m]) <=> m = cur
    /\ lstamp = [for |-> cur, when |-> "this_cycle"]

\* C20: the total computed for a matched quote is the sum over every line
\* of the quote's sales order, however many lines the order has, plus the
\* delivery amounts.
C20_TotalCoversEveryLine ==
    pc = "moving" =>
        LET order == seen.lines.order
            q(line) == IF "quantity" \in DOMAIN line THEN line.quantity ELSE 1
            d == seen.details.value
            delivery ==
                (IF "deliveryAmount" \in DOMAIN d THEN d.deliveryAmount ELSE 0)
                + (IF "deliveryTax" \in DOMAIN d THEN d.deliveryTax ELSE 0)
        IN total_amount =
            SumTo([i \in DOMAIN order |-> order[i].price * q(order[i])],
                  Len(order))
            + SumTo([i \in DOMAIN order |-> order[i].tax * q(order[i])],
                    Len(order))
            + delivery

\* The i-th quote listed carries the title cut out of the subject of m.
TitleListed(m, i) == srv.listing[i].title = SplitHead(subject[m])

\* The i-th quote listed has a sales order with at least one line.
HasOrderWithLines(i) ==
    /\ "salesOrderId" \in DOMAIN srv.answers[i].details.value
    /\ Len(srv.answers[i].lines.order) >= 1

\* Every line returned for the i-th quote listed has a price and a tax.
LinesWellFormed(i) ==
    \A k \in DOMAIN srv.answers[i].lines.value :
        {"price", "tax"} \subseteq DOMAIN srv.answers[i].lines.value[k]

====
